---- MODULE Spec2Model ----
(***************************************************************************)
(* Model of the gpio dbus daemon (src/dbus/gpio-dbus.c).                   *)
(*                                                                         *)
(* The daemon is single threaded: every callback (bus ownership callbacks, *)
(* uevents, unix signals) is dispatched by one GMainLoop and runs to       *)
(* completion.  One action of the model is one dispatched callback.  The   *)
(* callbacks are written as operators over a record `m' that holds the     *)
(* mutable state a callback can touch; the library calls a callback makes  *)
(* are appended, in program order, to m.ops.                               *)
(***************************************************************************)
EXTENDS Integers, Sequences, FiniteSets, TLC

(* ------------------------------ bounds --------------------------------- *)
NumChips == 2       \* device names gpiochip0 .. gpiochip<NumChips-1>
MaxHandle == 4      \* chip handles the chip library hands out in one run
MaxEnum == 2        \* length of the device list returned by the udev query

(* ----------------------------- vocabulary ------------------------------ *)
Names == 0 .. (NumChips - 1)
NoName == -1
Dev == [name : Names, devfile : BOOLEAN]
Actions == {"add", "remove", "change"}
Outcome == {"ok", "openfail", "regfail"}
LostCase == {"null", "closed", "lost"}

VARIABLES
    bus,          \* ctx.bus: "NULL" or "conn"
    subscribed,   \* on_uevent is connected to the "uevent" signal of ctx.udev
    chips,        \* ctx.chips: device name -> ChipCtx
    handles,      \* chip handles currently open in the chip library
    objects,      \* objects currently registered on the bus connection
    next_handle,  \* next handle the chip library returns
    next_obj_id,  \* next registration id the bus connection returns
    status,       \* "running" | "stopped" | "exit_success" | "exit_failure" | "aborted"
    sources,      \* unix signal sources still attached to the main context
    own,          \* progress of the g_bus_own_name handshake
    ops,          \* library calls made by the last dispatched callback
    ev,           \* the last dispatched callback and its inputs
    reported,     \* names the udev client has reported present (with a device file)
    wf,           \* the udev client's reports were well-formed so far
    faults,       \* resources released twice or released without being held
    read          \* the property read dispatched last, NoRead after any other callback

vars == <<bus, subscribed, chips, handles, objects, next_handle, next_obj_id,
          status, sources, own, ops, ev, reported, wf, faults, read>>

(* ------------------------------ helpers -------------------------------- *)
Op(o, n, h, id) == [op |-> o, name |-> n, handle |-> h, obj_id |-> id]

Log(m, o) == [m EXCEPT !.ops = Append(@, o)]

ChipCtx(h, id) == [handle |-> h, obj_id |-> id]

\* g_strdup_printf("/org/gpiod/%s", devname)
ObjPath(devname) == <<"org", "gpiod", devname>>

Event(k, a, d, o) == [kind |-> k, action |-> a, devs |-> d, out |-> o]

Range(s) == {s[i] : i \in 1 .. Len(s)}

\* device lists without a repeated entry, as a udev query returns them
DevLists ==
    {s \in UNION {[1 .. k -> Dev] : k \in 0 .. MaxEnum} :
        \A i, j \in 1 .. Len(s) : i # j => s[i] # s[j]}

\* property names a client can ask for; "Other" is any name not in the
\* introspection data
Props == {"Name", "Label", "NumLines", "Other"}

\* metadata snapshots the chip library can report for a handle at the
\* time of a call
ChipInfos == {[name |-> 0, label |-> 10, num_lines |-> 4],
              [name |-> 1, label |-> 11, num_lines |-> 8]}

NULL == [type |-> "NULL", value |-> 0]

NoRead == [obj_id |-> 0, property |-> "",
           info |-> [name |-> 0, label |-> 0, num_lines |-> 0], reply |-> NULL]

(* -------------------------- library primitives ------------------------- *)
gpiod_chip_open_by_name(m, devname, ok) ==
    IF ok
    THEN Log([m EXCEPT !.handles = @ \cup {m.next_handle},
                       !.next_handle = @ + 1],
             Op("open", devname, m.next_handle, 0))
    ELSE Log(m, Op("open", devname, 0, 0))

\* closing a handle that is not open is a double free in the chip library
gpiod_chip_close(m, h) ==
    Log([m EXCEPT !.handles = @ \ {h},
                  !.faults = IF h \in m.handles THEN @ ELSE @ \cup {"close"}],
        Op("close", NoName, h, 0))

g_dbus_connection_register_object(m, devname, h, ok) ==
    IF ok
    THEN Log([m EXCEPT !.objects = @ \cup {[obj_id |-> m.next_obj_id,
                                            path |-> ObjPath(devname),
                                            handle |-> h]},
                       !.next_obj_id = @ + 1],
             Op("register", devname, h, m.next_obj_id))
    ELSE Log(m, Op("register", devname, h, 0))

\* unregistering an id that is not registered fails in the bus library
g_dbus_connection_unregister_object(m, id) ==
    Log([m EXCEPT !.objects = {o \in @ : o.obj_id # id},
                  !.faults = IF \E o \in m.objects : o.obj_id = id
                             THEN @ ELSE @ \cup {"unregister"}],
        Op("unregister", NoName, 0, id))

\* accessors of the chip library: the value it reports when called
gpiod_chip_name(h, info) == info.name

gpiod_chip_label(h, info) == info.label

gpiod_chip_num_lines(h, info) == info.num_lines

g_variant_new_string(v) == [type |-> "s", value |-> v]

\* the argument is an unsigned int, as wide as the guint32 it is stored in
g_variant_new_uint32(v) == [type |-> "u", value |-> v]

g_warning(m) == Log(m, Op("warning", NoName, 0, 0))

g_assert_true(m, ret) ==
    IF ret THEN m
    ELSE Log([m EXCEPT !.status = "aborted"], Op("abort", NoName, 0, 0))

(* ------------------------------ callbacks ------------------------------ *)
is_gpiochip_device(dev) == dev.devfile

\* variant: the bus object is left registered
destroy_chip_object_no_unregister(m, chip) ==
    IF chip.handle # 0 THEN gpiod_chip_close(m, chip.handle) ELSE m

\* variant: the handle and the object id are released without being tested
destroy_chip_object_unguarded(m, chip) ==
    g_dbus_connection_unregister_object(gpiod_chip_close(m, chip.handle),
                                        chip.obj_id)

destroy_chip_object(m, chip) ==
    LET m1 == IF chip.handle # 0 THEN gpiod_chip_close(m, chip.handle) ELSE m
    IN  IF chip.obj_id # 0
        THEN g_dbus_connection_unregister_object(m1, chip.obj_id)
        ELSE m1

\* g_hash_table_insert on a table created with destroy_chip_object as the
\* value destroy function: an existing value is destroyed and replaced and
\* the call returns FALSE
g_hash_table_insert(m, devname, chip) ==
    LET had == devname \in DOMAIN m.chips
        m1 == IF had THEN destroy_chip_object(m, m.chips[devname]) ELSE m
        m2 == [m1 EXCEPT !.chips =
                   [k \in (DOMAIN @) \cup {devname} |->
                       IF k = devname THEN chip ELSE @[k]]]
    IN  [m |-> Log(m2, Op("insert", devname, chip.handle, chip.obj_id)),
         ret |-> ~had]

\* variant: the table has no value destroy function
g_hash_table_remove_no_destroy(m, devname) ==
    IF devname \in DOMAIN m.chips
    THEN [m |-> Log([m EXCEPT !.chips = [k \in (DOMAIN @) \ {devname} |-> @[k]]],
                    Op("remove", devname, m.chips[devname].handle,
                       m.chips[devname].obj_id)),
          ret |-> TRUE]
    ELSE [m |-> m, ret |-> FALSE]

\* g_hash_table_remove: unlinks the entry, then runs the destroy functions
g_hash_table_remove(m, devname) ==
    IF devname \in DOMAIN m.chips
    THEN LET chip == m.chips[devname]
             m1 == [m EXCEPT !.chips =
                        [k \in (DOMAIN @) \ {devname} |-> @[k]]]
         IN  [m |-> destroy_chip_object(
                        Log(m1, Op("remove", devname, chip.handle, chip.obj_id)),
                        chip),
              ret |-> TRUE]
    ELSE [m |-> m, ret |-> FALSE]

\* variant: the handle is closed by hand before the partial entry is destroyed
register_chip_object_double_close(m, devname, outcome) ==
    LET m1 == gpiod_chip_open_by_name(m, devname, outcome # "openfail")
        h == IF outcome # "openfail" THEN m.next_handle ELSE 0
    IN  IF h = 0
        THEN g_warning(destroy_chip_object(m1, ChipCtx(0, 0)))
        ELSE LET m2 == g_dbus_connection_register_object(
                           m1, devname, h, outcome = "ok")
                 id == IF outcome = "ok" THEN m1.next_obj_id ELSE 0
             IN  IF id = 0
                 THEN g_warning(destroy_chip_object(gpiod_chip_close(m2, h),
                                                    ChipCtx(h, 0)))
                 ELSE LET r == g_hash_table_insert(m2, devname, ChipCtx(h, id))
                      IN  g_assert_true(r.m, r.ret)

\* variant: a failed open or registration is treated as fatal
register_chip_object_fatal(m, devname, outcome) ==
    IF outcome = "ok"
    THEN LET m1 == gpiod_chip_open_by_name(m, devname, TRUE)
             m2 == g_dbus_connection_register_object(m1, devname, m.next_handle, TRUE)
             r == g_hash_table_insert(m2, devname,
                                      ChipCtx(m.next_handle, m.next_obj_id))
         IN  g_assert_true(r.m, r.ret)
    ELSE g_assert_true(gpiod_chip_open_by_name(m, devname, FALSE), FALSE)

register_chip_object(m, devname, outcome) ==
    LET m1 == gpiod_chip_open_by_name(m, devname, outcome # "openfail")
        h == IF outcome # "openfail" THEN m.next_handle ELSE 0
    IN  IF h = 0
        THEN g_warning(destroy_chip_object(m1, ChipCtx(0, 0)))
        ELSE LET m2 == g_dbus_connection_register_object(
                           m1, devname, h, outcome = "ok")
                 id == IF outcome = "ok" THEN m1.next_obj_id ELSE 0
             IN  IF id = 0
                 THEN g_warning(destroy_chip_object(m2, ChipCtx(h, 0)))
                 ELSE LET r == g_hash_table_insert(m2, devname, ChipCtx(h, id))
                      IN  g_assert_true(r.m, r.ret)

\* variant: the result of the removal is not asserted
destroy_chip_dev_unchecked(m, devname) == g_hash_table_remove(m, devname).m

destroy_chip_dev(m, devname) ==
    LET r == g_hash_table_remove(m, devname)
    IN  g_assert_true(r.m, r.ret)

\* variant: the device file filter is missing
create_chip_list_cb_unfiltered(m, dev, outcome) ==
    register_chip_object(m, dev.name, outcome)

create_chip_list_cb(m, dev, outcome) ==
    IF is_gpiochip_device(dev)
    THEN register_chip_object(m, dev.name, outcome)
    ELSE m

\* variant: the device file filter is missing
on_uevent_unfiltered(m, action, dev, outcome) ==
    IF action = "add" THEN register_chip_object(m, dev.name, outcome)
    ELSE IF action = "remove" THEN destroy_chip_dev(m, dev.name)
    ELSE g_warning(m)

\* variant: every action other than add is taken for a remove
on_uevent_unknown_removes(m, action, dev, outcome) ==
    IF ~is_gpiochip_device(dev) THEN m
    ELSE IF action = "add" THEN register_chip_object(m, dev.name, outcome)
    ELSE destroy_chip_dev(m, dev.name)

on_uevent(m, action, dev, outcome) ==
    IF ~is_gpiochip_device(dev) THEN m
    ELSE IF action = "add" THEN register_chip_object(m, dev.name, outcome)
    ELSE IF action = "remove" THEN destroy_chip_dev(m, dev.name)
    ELSE g_warning(m)

\* g_list_foreach(devs, create_chip_list_cb, ctx); a failed assertion ends
\* the process in the middle of the list
RECURSIVE g_list_foreach(_, _, _, _)
g_list_foreach(m, devs, out, i) ==
    IF i > Len(devs) \/ m.status # "running" THEN m
    ELSE g_list_foreach(create_chip_list_cb(m, devs[i], out[i]), devs, out, i + 1)

\* variant: the uevent handler is connected after the enumeration
on_name_acquired_subscribe_last(m, devs, out) ==
    LET m1 == g_list_foreach(Log(m, Op("query", NoName, 0, 0)), devs, out, 1)
    IN  Log([m1 EXCEPT !.subscribed = TRUE], Op("subscribe", NoName, 0, 0))

on_name_acquired(m, devs, out) ==
    LET m1 == Log([m EXCEPT !.subscribed = TRUE], Op("subscribe", NoName, 0, 0))
        m2 == Log(m1, Op("query", NoName, 0, 0))
    IN  g_list_foreach(m2, devs, out, 1)

\* variant: the uevent handler is connected as soon as the bus is reached
on_bus_acquired_subscribes(m) == [m EXCEPT !.bus = "conn", !.subscribed = TRUE]

on_bus_acquired(m) == [m EXCEPT !.bus = "conn"]

\* variant: the message is logged but the process does not exit
die_returns(m) == Log(m, Op("die", NoName, 0, 0))

die(m) == Log([m EXCEPT !.status = "exit_failure"], Op("die", NoName, 0, 0))

on_name_lost(m, case) == die(m)

g_main_loop_quit(m) == Log([m EXCEPT !.status = "stopped"], Op("quit", NoName, 0, 0))

\* G_SOURCE_REMOVE detaches the source, G_SOURCE_CONTINUE keeps it
G_SOURCE_REMOVE(m, sig) == [m EXCEPT !.sources = @ \ {sig}]

G_SOURCE_CONTINUE(m, sig) == m

\* variant: the handler does not stop the loop
on_sigterm_ignored(m) == G_SOURCE_REMOVE(m, "SIGTERM")

on_sigterm(m) == G_SOURCE_REMOVE(g_main_loop_quit(m), "SIGTERM")

on_sigint(m) == G_SOURCE_REMOVE(g_main_loop_quit(m), "SIGINT")

\* variant: hangup is handled like terminate
on_sighup_quits(m) == G_SOURCE_REMOVE(g_main_loop_quit(m), "SIGHUP")

on_sighup(m) == G_SOURCE_CONTINUE(m, "SIGHUP")

\* variant: the Label branch returns the chip name
on_chip_property_get_swapped(chip, property, info) ==
    IF property = "Name"
    THEN g_variant_new_string(gpiod_chip_name(chip.handle, info))
    ELSE IF property = "Label"
    THEN g_variant_new_string(gpiod_chip_name(chip.handle, info))
    ELSE IF property = "NumLines"
    THEN g_variant_new_uint32(gpiod_chip_num_lines(chip.handle, info))
    ELSE NULL

\* chip is the user data bound at registration; info is what the chip
\* library reports for chip.handle during this call
on_chip_property_get(chip, property, info) ==
    IF property = "Name"
    THEN g_variant_new_string(gpiod_chip_name(chip.handle, info))
    ELSE IF property = "Label"
    THEN g_variant_new_string(gpiod_chip_label(chip.handle, info))
    ELSE IF property = "NumLines"
    THEN g_variant_new_uint32(gpiod_chip_num_lines(chip.handle, info))
    ELSE NULL

\* g_hash_table_destroy: every entry is unlinked and destroyed, in the
\* table's iteration order `order'
RECURSIVE g_hash_table_destroy(_, _, _)
g_hash_table_destroy(m, order, i) ==
    IF i > Len(order) THEN m
    ELSE g_hash_table_destroy(g_hash_table_remove(m, order[i]).m, order, i + 1)

\* variant: the bus name is released before the registry is destroyed
main_teardown_unown_first(m, order) ==
    LET m1 == Log(m, Op("unown_name", NoName, 0, 0))
        m2 == g_hash_table_destroy(m1, order, 1)
        m3 == Log([m2 EXCEPT !.subscribed = FALSE], Op("unref_udev", NoName, 0, 0))
    IN  [m3 EXCEPT !.status = "exit_success"]

\* main() after g_main_loop_run returned
main_teardown(m, order) ==
    LET m1 == g_hash_table_destroy(m, order, 1)
        m2 == Log([m1 EXCEPT !.subscribed = FALSE], Op("unref_udev", NoName, 0, 0))
        m3 == Log(m2, Op("unown_name", NoName, 0, 0))
    IN  [m3 EXCEPT !.status = "exit_success"]

(* --------------------------- state machine ----------------------------- *)
Ctx == [bus |-> bus, subscribed |-> subscribed, chips |-> chips,
        handles |-> handles, objects |-> objects,
        next_handle |-> next_handle, next_obj_id |-> next_obj_id,
        status |-> status, sources |-> sources, faults |-> faults,
        ops |-> <<>>]

Commit(m) ==
    /\ bus' = m.bus
    /\ subscribed' = m.subscribed
    /\ chips' = m.chips
    /\ handles' = m.handles
    /\ objects' = m.objects
    /\ next_handle' = m.next_handle
    /\ next_obj_id' = m.next_obj_id
    /\ status' = m.status
    /\ sources' = m.sources
    /\ faults' = m.faults
    /\ ops' = m.ops
    /\ read' = NoRead

\* an add is attempted for this device (and so the outcome of the open and
\* of the registration is an input of the callback)
Attempts(action, dev) == action = "add" /\ dev.devfile

OutcomesFor(action, devs) ==
    {o \in [1 .. Len(devs) -> Outcome] :
        \A i \in 1 .. Len(devs) : ~Attempts(action, devs[i]) => o[i] = "ok"}

NumAttempts(action, devs) ==
    Cardinality({i \in 1 .. Len(devs) : Attempts(action, devs[i])})

\* state of main() when g_main_loop_run is entered
Init ==
    /\ bus = "NULL"
    /\ subscribed = FALSE
    /\ chips = <<>>
    /\ handles = {}
    /\ objects = {}
    /\ next_handle = 1
    /\ next_obj_id = 1
    /\ status = "running"
    /\ sources = {"SIGTERM", "SIGINT", "SIGHUP"}
    /\ own = "Unowned"
    /\ ops = <<>>
    /\ ev = Event("init", "", <<>>, <<>>)
    /\ reported = {}
    /\ wf = TRUE
    /\ faults = {}
    /\ read = NoRead

BusAcquired ==
    /\ status = "running"
    /\ own = "Unowned"
    /\ Commit(on_bus_acquired(Ctx))
    /\ own' = "Connected"
    /\ ev' = Event("bus_acquired", "", <<>>, <<>>)
    /\ UNCHANGED <<reported, wf>>

NameAcquired ==
    /\ status = "running"
    /\ own = "Connected"
    /\ \E devs \in DevLists :
         /\ next_handle + NumAttempts("add", devs) <= MaxHandle + 1
         /\ \E out \in OutcomesFor("add", devs) :
              /\ Commit(on_name_acquired(Ctx, devs, out))
              /\ ev' = Event("name_acquired", "add", devs, out)
              /\ reported' = {d.name : d \in {x \in Range(devs) : x.devfile}}
    /\ own' = "Active"
    /\ UNCHANGED <<wf>>

\* conn is NULL only when no connection was ever made
NameLost ==
    /\ status = "running"
    /\ \E case \in LostCase :
         /\ (case = "null") <=> (own = "Unowned")
         /\ Commit(on_name_lost(Ctx, case))
         /\ ev' = Event("name_lost", case, <<>>, <<>>)
    /\ UNCHANGED <<own, reported, wf>>

Uevent ==
    /\ status = "running"
    /\ subscribed
    /\ \E action \in Actions, dev \in Dev :
         /\ next_handle + NumAttempts(action, <<dev>>) <= MaxHandle + 1
         /\ \E out \in OutcomesFor(action, <<dev>>) :
              /\ Commit(on_uevent(Ctx, action, dev, out[1]))
              /\ ev' = Event("uevent", action, <<dev>>, out)
         /\ reported' = IF ~dev.devfile THEN reported
                        ELSE IF action = "add" THEN reported \cup {dev.name}
                        ELSE IF action = "remove" THEN reported \ {dev.name}
                        ELSE reported
         /\ wf' = IF ~dev.devfile THEN wf
                  ELSE IF action = "add" THEN wf /\ dev.name \notin reported
                  ELSE IF action = "remove" THEN wf /\ dev.name \in reported
                  ELSE wf
    /\ UNCHANGED <<own>>

Sigterm ==
    /\ status = "running"
    /\ "SIGTERM" \in sources
    /\ Commit(on_sigterm(Ctx))
    /\ ev' = Event("sigterm", "", <<>>, <<>>)
    /\ UNCHANGED <<own, reported, wf>>

Sigint ==
    /\ status = "running"
    /\ "SIGINT" \in sources
    /\ Commit(on_sigint(Ctx))
    /\ ev' = Event("sigint", "", <<>>, <<>>)
    /\ UNCHANGED <<own, reported, wf>>

Sighup ==
    /\ status = "running"
    /\ "SIGHUP" \in sources
    /\ Commit(on_sighup(Ctx))
    /\ ev' = Event("sighup", "", <<>>, <<>>)
    /\ UNCHANGED <<own, reported, wf>>

MainExit ==
    /\ status = "stopped"
    /\ \E order \in [1 .. Cardinality(DOMAIN chips) -> DOMAIN chips] :
         /\ Range(order) = DOMAIN chips
         /\ Commit(main_teardown(Ctx, order))
    /\ ev' = Event("main_exit", "", <<>>, <<>>)
    /\ UNCHANGED <<own, reported, wf>>

\* a client reads a property of a registered chip object
PropertyGet ==
    /\ status = "running"
    /\ \E o \in objects, property \in Props, info \in ChipInfos :
         /\ read' = [obj_id |-> o.obj_id, property |-> property, info |-> info,
                     reply |-> on_chip_property_get(
                                   ChipCtx(o.handle, o.obj_id), property, info)]
         /\ faults' = IF o.handle \in handles THEN faults
                      ELSE faults \cup {"use_after_close"}
         /\ ev' = Event("property_get", property, <<>>, <<>>)
    /\ ops' = <<>>
    /\ UNCHANGED <<bus, subscribed, chips, handles, objects, next_handle,
                   next_obj_id, status, sources, own, reported, wf>>

Next ==
    \/ BusAcquired
    \/ NameAcquired
    \/ NameLost
    \/ Uevent
    \/ Sigterm
    \/ Sigint
    \/ Sighup
    \/ MainExit
    \/ PropertyGet

Spec == Init /\ [][Next]_vars

\* g_main_loop_run returns once the loop was quit and main() runs on
FairSpec == Spec /\ WF_vars(MainExit)

(* ------------------------------ properties ----------------------------- *)
\* ownership state of the daemon in the vocabulary of the design
OwnershipState == IF status = "exit_failure" THEN "Terminating" ELSE own

IsUevent(e, action) ==
    /\ e.kind = "uevent"
    /\ e.action = action
    /\ e.devs[1].devfile

OpIndexes(o) == {i \in 1 .. Len(ops) : ops[i].op = o}

\* C1: between two dispatched events, a device name is a key of the chip
\* registry exactly when a bus object is registered at /org/gpiod/<name>
\* and the chip handle bound to that object is open.
C1_RegistryBusConsistency ==
    \A n \in Names :
        (n \in DOMAIN chips) <=>
            (\E o \in objects : o.path = ObjPath(n) /\ o.handle \in handles)

C1_Witness ==
    /\ status = "running"
    /\ ev.kind = "uevent"
    /\ ev.action = "add"
    /\ ev.out[1] = "regfail"
    /\ chips # <<>>
    /\ Cardinality(DOMAIN chips) < NumChips

\* C2 (as claimed): whenever a registry entry is destroyed, the map entry is
\* removed first, then the bus object is unregistered, then the chip handle
\* is closed.
C2_UnregisterBeforeClose ==
    \A i \in OpIndexes("remove") :
        \A j \in OpIndexes("close"), k \in OpIndexes("unregister") :
            (ops[j].handle = ops[i].handle /\ ops[k].obj_id = ops[i].obj_id)
                => (i < k /\ k < j)

\* C3 (as claimed): in the name-granted callback the enumeration and every
\* add are completed before the uevent subscription is installed.
C3_EnumerateThenSubscribe ==
    ev.kind = "name_acquired" =>
        \A i \in OpIndexes("subscribe") :
            \A j \in 1 .. Len(ops) :
                ops[j].op \in {"query", "open", "register", "insert"} => j < i

\* C3 (amended): in the name-granted callback the uevent subscription is
\* installed first; the one-shot enumeration and the add of every qualifying
\* device follow it within the same callback.
C3_SubscribeThenEnumerate ==
    ev.kind = "name_acquired" =>
        /\ subscribed
        /\ OpIndexes("subscribe") = {1}
        /\ OpIndexes("query") = {2}
        /\ \A i \in 1 .. Len(ev.devs) :
               ev.devs[i].devfile =>
                   \E j \in OpIndexes("open") :
                       j > 2 /\ ops[j].name = ev.devs[i].name

C3_Witness ==
    /\ ev.kind = "name_acquired"
    /\ Cardinality(DOMAIN chips) = 2

\* C4: while the ownership state is not Active (Unowned, Connected, or
\* Terminating reached before Active) the registry is empty, no bus object
\* is registered, no chip is open and no uevent handler is subscribed.
C4_InactiveIsEmpty ==
    own # "Active" =>
        /\ chips = <<>>
        /\ objects = {}
        /\ handles = {}
        /\ ~subscribed
        /\ ev.kind # "uevent"

C4_Witness ==
    /\ OwnershipState = "Terminating"
    /\ own = "Connected"

\* C5: a name-lost callback, in any ownership state, ends the process with
\* a failure status without touching the registry, and no step is ever
\* taken from the Terminating state.
C5_NameLostFatal ==
    [][/\ OwnershipState # "Terminating"
       /\ ev'.kind = "name_lost" =>
              /\ status' = "exit_failure"
              /\ chips' = chips
              /\ objects' = objects
              /\ handles' = handles]_vars

C5_Witness ==
    /\ ev.kind = "name_lost"
    /\ own = "Active"
    /\ status = "exit_failure"
    /\ chips # <<>>

\* C6 (as claimed): an add notification for a name that is already in the
\* registry aborts the process, whatever the outcome of the open and of
\* the registration attempted for it.
C6_DuplicateAddAborts ==
    [][(IsUevent(ev', "add") /\ ev'.devs[1].name \in DOMAIN chips)
           => status' = "aborted"]_vars

\* C7: a remove notification with a device file for a name that is not in
\* the registry aborts the process and leaves the registry as it was.
C7_RemoveAbsentAborts ==
    [][(IsUevent(ev', "remove") /\ ev'.devs[1].name \notin DOMAIN chips)
           => /\ status' = "aborted"
              /\ chips' = chips
              /\ objects' = objects
              /\ handles' = handles]_vars

C7_Witness ==
    /\ status = "aborted"
    /\ IsUevent(ev, "remove")
    /\ ev.devs[1].name \notin DOMAIN chips
    /\ chips # <<>>

\* C8: an add that fails in the chip open or in the object registration
\* leaves the registry, the registered objects, the open handles, the
\* subscription and the ownership state as they were and the process
\* running; a failure during the startup enumeration does not keep the
\* other devices of the list from being added.
C8_AddFailureLocal ==
    [][/\ (IsUevent(ev', "add") /\ ev'.out[1] # "ok") =>
              /\ chips' = chips
              /\ objects' = objects
              /\ handles' = handles
              /\ own' = own
              /\ subscribed' = subscribed
              /\ status' = "running"
       /\ ev'.kind = "name_acquired" =>
              /\ status' = "running"
              /\ subscribed'
              /\ \A i \in 1 .. Len(ev'.devs) :
                     ev'.devs[i].devfile =>
                         (ev'.devs[i].name \in DOMAIN chips'
                              <=> ev'.out[i] = "ok")]_vars

C8_Witness ==
    /\ status = "running"
    /\ IsUevent(ev, "add")
    /\ ev.out[1] = "openfail"
    /\ chips # <<>>
    /\ ev.devs[1].name \notin DOMAIN chips

\* C9 (as claimed): as long as the reports of the device event source are
\* well-formed, the process aborts or exits with failure only on a
\* name-lost callback.
C9_OnlyBusLossFatal ==
    (wf /\ status \in {"aborted", "exit_failure"}) => ev.kind = "name_lost"

\* C10: when the name-granted callback has completed and every open and
\* registration succeeded, the registry keys are exactly the enumerated
\* names that carry a device file, and exactly one bus object is
\* registered per key, at /org/gpiod/<name>, and none besides.
C10_StartupEnumeration ==
    (ev.kind = "name_acquired" /\ \A i \in 1 .. Len(ev.out) : ev.out[i] = "ok") =>
        /\ DOMAIN chips = {d.name : d \in {x \in Range(ev.devs) : x.devfile}}
        /\ \A n \in DOMAIN chips :
               /\ Cardinality({o \in objects : o.path = ObjPath(n)}) = 1
               /\ \E o \in objects :
                      /\ o.path = ObjPath(n)
                      /\ o.obj_id = chips[n].obj_id
                      /\ o.handle = chips[n].handle
                      /\ o.handle \in handles
        /\ Cardinality(objects) = Cardinality(DOMAIN chips)

C10_Witness ==
    /\ ev.kind = "name_acquired"
    /\ \A i \in 1 .. Len(ev.out) : ev.out[i] = "ok"
    /\ \E i, j \in 1 .. Len(ev.devs) : ev.devs[i].devfile /\ ~ev.devs[j].devfile
    /\ chips # <<>>

OpCount(o, kind) == Cardinality({i \in 1 .. Len(o) : o[i].op = kind})

Destroying == {"remove", "close", "unregister"}

\* C11: a uevent or an enumerated device without a device file never
\* triggers add or remove processing: for a uevent nothing changes, no
\* library call is made and the process keeps running, whatever the action
\* and whether or not the name is in the registry; in the enumeration one
\* open is attempted per listed device with a device file and none else.
C11_FilterCorrectness ==
    [][/\ (ev'.kind = "uevent" /\ ~ev'.devs[1].devfile) =>
              /\ chips' = chips
              /\ handles' = handles
              /\ objects' = objects
              /\ next_handle' = next_handle
              /\ ops' = <<>>
              /\ status' = "running"
       /\ ev'.kind = "name_acquired" =>
              /\ OpCount(ops', "open") = NumAttempts("add", ev'.devs)
              /\ \A i \in 1 .. Len(ops') :
                     ops'[i].op = "open" =>
                         [name |-> ops'[i].name, devfile |-> TRUE]
                             \in Range(ev'.devs)
              /\ status' = "running"]_vars

C11_Witness ==
    /\ ev.kind = "uevent"
    /\ ev.action = "remove"
    /\ ~ev.devs[1].devfile
    /\ ev.devs[1].name \notin DOMAIN chips
    /\ chips # <<>>
    /\ status = "running"

\* C12: a uevent whose action is neither add nor remove leaves the
\* registry, the open handles, the registered objects and the ownership
\* state unchanged and the process running.
C12_UnknownActionIgnored ==
    [][(ev'.kind = "uevent" /\ ev'.action \notin {"add", "remove"}) =>
           /\ chips' = chips
           /\ handles' = handles
           /\ objects' = objects
           /\ own' = own
           /\ subscribed' = subscribed
           /\ status' = "running"]_vars

C12_Witness ==
    /\ ev.kind = "uevent"
    /\ ev.action = "change"
    /\ ev.devs[1].devfile
    /\ ev.devs[1].name \in DOMAIN chips
    /\ status = "running"

\* C13: once a terminate or interrupt signal has been dispatched, the loop
\* is stopped and the process eventually exits with status 0 with every
\* registry entry destroyed, every bus object unregistered and every chip
\* handle closed.
C13_GracefulStop ==
    (ev.kind \in {"sigterm", "sigint"}) ~>
        (/\ status = "exit_success"
         /\ chips = <<>>
         /\ objects = {}
         /\ handles = {})

C13_Witness ==
    /\ status = "exit_success"
    /\ own = "Active"
    /\ OpCount(ops, "unregister") = 2
    /\ OpCount(ops, "close") = 2

\* C14: a hangup signal changes nothing: the registry, the bus objects,
\* the open handles, the ownership state and the loop's running status
\* are as before and the hangup handler stays installed.
C14_HangupIgnored ==
    [][ev'.kind = "sighup" =>
           /\ chips' = chips
           /\ objects' = objects
           /\ handles' = handles
           /\ own' = own
           /\ subscribed' = subscribed
           /\ status' = status
           /\ status' = "running"
           /\ sources' = sources
           /\ "SIGHUP" \in sources']_vars

C14_Witness ==
    /\ ev.kind = "sighup"
    /\ own = "Active"
    /\ chips # <<>>
    /\ status = "running"

\* C15: a read of Name, Label or NumLines on a registered chip object
\* replies with the value the chip library reports during that read, a
\* read of any other property yields no value, and a read changes neither
\* the registry nor any entry, object or handle.
C15_PropertyRead ==
    [][ev'.kind = "property_get" =>
           /\ read'.reply =
                  (IF read'.property = "Name"
                   THEN [type |-> "s", value |-> read'.info.name]
                   ELSE IF read'.property = "Label"
                   THEN [type |-> "s", value |-> read'.info.label]
                   ELSE IF read'.property = "NumLines"
                   THEN [type |-> "u", value |-> read'.info.num_lines]
                   ELSE NULL)
           /\ \E n \in DOMAIN chips : chips[n].obj_id = read'.obj_id
           /\ chips' = chips
           /\ objects' = objects
           /\ handles' = handles
           /\ status' = status
           /\ faults' = faults]_vars

\* a second read on the same object after the library's value changed
C15_Witness ==
    /\ ev.kind = "property_get"
    /\ read.property = "NumLines"
    /\ read.reply = [type |-> "u", value |-> 8]
    /\ Cardinality(DOMAIN chips) = 2

\* C16: an add whose open and registration succeed puts the name in the
\* registry with a bus object at /org/gpiod/<name> bound to a handle
\* opened for this attempt, also when the previous event for that name
\* was a failed add or a remove; such an add changes nothing else, and a
\* remove takes away exactly that entry, its object and its handle, so
\* that add followed by remove restores the registry and the objects.
C16_IndependentAttempt ==
    [][/\ (IsUevent(ev', "add") /\ ev'.out[1] = "ok") =>
              LET n == ev'.devs[1].name
              IN  /\ n \in DOMAIN chips'
                  /\ chips'[n].handle = next_handle
                  /\ chips'[n].handle \in handles'
                  /\ [obj_id |-> chips'[n].obj_id, path |-> ObjPath(n),
                      handle |-> chips'[n].handle] \in objects'
                  /\ n \notin DOMAIN chips =>
                         /\ DOMAIN chips' = DOMAIN chips \cup {n}
                         /\ \A k \in DOMAIN chips : chips'[k] = chips[k]
                         /\ objects' \ objects =
                                {[obj_id |-> chips'[n].obj_id,
                                  path |-> ObjPath(n),
                                  handle |-> chips'[n].handle]}
                         /\ objects \subseteq objects'
                         /\ status' = "running"
       /\ (IsUevent(ev', "remove") /\ ev'.devs[1].name \in DOMAIN chips) =>
              LET n == ev'.devs[1].name
              IN  /\ DOMAIN chips' = DOMAIN chips \ {n}
                  /\ \A k \in DOMAIN chips' : chips'[k] = chips[k]
                  /\ objects' = objects \
                         {[obj_id |-> chips[n].obj_id, path |-> ObjPath(n),
                           handle |-> chips[n].handle]}
                  /\ handles' = handles \ {chips[n].handle}
                  /\ status' = "running"]_vars

\* an add succeeded right after a failed add for the same name
C16_Witness ==
    /\ IsUevent(ev, "add")
    /\ ev.out[1] = "ok"
    /\ status = "running"
    /\ ev.devs[1].name \in DOMAIN chips
    /\ chips[ev.devs[1].name].handle > 2
    /\ next_obj_id = 2

\* C17: when the open succeeds and the registration fails, the handle
\* just opened is closed before add returns and no entry is inserted; when
\* the open fails, no registration is attempted; a nil handle is never
\* closed and an object id of 0 is never unregistered.
C17_PartialTeardown ==
    /\ \A i \in 1 .. Len(ops) :
           /\ ops[i].op = "close" => ops[i].handle # 0
           /\ ops[i].op = "unregister" => ops[i].obj_id # 0
    /\ (IsUevent(ev, "add") /\ ev.out[1] = "regfail") =>
           /\ Len(ops) = 4
           /\ ops[1].op = "open" /\ ops[1].handle # 0
           /\ ops[2].op = "register" /\ ops[2].obj_id = 0
           /\ ops[3].op = "close" /\ ops[3].handle = ops[1].handle
           /\ ops[4].op = "warning"
           /\ ops[1].handle \notin handles
           /\ \A n \in DOMAIN chips : chips[n].handle # ops[1].handle
    /\ (IsUevent(ev, "add") /\ ev.out[1] = "openfail") =>
           /\ Len(ops) = 2
           /\ ops[1].op = "open" /\ ops[1].handle = 0
           /\ ops[2].op = "warning"

C17_Witness ==
    /\ IsUevent(ev, "add")
    /\ ev.out[1] = "regfail"
    /\ ev.devs[1].name \notin DOMAIN chips
    /\ OpCount(ops, "close") = 1

C19_TeardownOrdering ==
    /\ status = "stopped" =>
           \A i \in 1 .. Len(ops) : ops[i].op \notin Destroying
    /\ ev.kind = "main_exit" =>
           /\ chips = <<>>
           /\ objects = {}
           /\ OpCount(ops, "unref_udev") = 1
           /\ OpCount(ops, "unown_name") = 1
           /\ \A u \in OpIndexes("unref_udev"), b \in OpIndexes("unown_name") :
                  /\ u < b
                  /\ \A i \in 1 .. Len(ops) : ops[i].op \in Destroying => i < u

C19_Witness ==
    /\ ev.kind = "main_exit"
    /\ OpCount(ops, "remove") = 2
    /\ OpCount(ops, "unown_name") = 1

\* C20: no chip handle is closed twice and no object id is unregistered
\* twice; every open handle and every registered object belongs to exactly
\* one registry entry; after a clean shutdown no handle is open and no
\* object is registered.
C20_ExclusiveOwnership ==
    /\ faults = {}
    /\ handles = {chips[n].handle : n \in DOMAIN chips}
    /\ {o.obj_id : o \in objects} = {chips[n].obj_id : n \in DOMAIN chips}
    /\ \A n1, n2 \in DOMAIN chips :
           n1 # n2 => /\ chips[n1].handle # chips[n2].handle
                      /\ chips[n1].obj_id # chips[n2].obj_id
    /\ status = "exit_success" => (handles = {} /\ objects = {})

C20_Witness ==
    /\ status = "exit_success"
    /\ next_handle > 3
    /\ next_obj_id > 2
    /\ OpCount(ops, "close") >= 1

====
